---- MODULE Spec2Model ----
(***************************************************************************)
(* Model of the classification / projection engine of excel-ui:           *)
(*   app/detect-column-types.ts  (src/unnamed/part_003)                    *)
(*   app/page.tsx                (src/unnamed/part_002, src/app/page.tsx)  *)
(* in three specifications: EngineSpec runs the engine on one dataset,     *)
(* CoerceSpec applies the value coercers to one value, PageSpec is the     *)
(* page with its file loads.                                               *)
(*                                                                         *)
(* A raw cell value is a record [k, c, n, s, id]:                          *)
(*   k  : the JavaScript type ("null", "undef", "num", "bool", "str",      *)
(*        "date" for a Date object, "obj" for any other object,           *)
(*        "label" for the locale rendering of a calendar day)             *)
(*   c  : the class of a number or time value ("fin", "nan", "inf",       *)
(*        "ninf"; "impl" for a time value only the engine's legacy date   *)
(*        parser determines)                                              *)
(*   n  : the integer value of a finite number, 0/1 of a boolean, the day *)
(*        number (days since 1970-01-01 UTC) of a date or label           *)
(*   s  : the characters of a string, one one-character string each       *)
(*   id : the identity of an object (objects are compared by reference)   *)
(***************************************************************************)
EXTENDS Integers, Sequences, FiniteSets, TLC

VARIABLES input, parsed, view, stage, lenient, fileName, error, loads, probe, out

vars == <<input, parsed, view, stage, lenient, fileName, error, loads, probe, out>>

\* the state of the page beside parsed: the file name and error shown, and
\* the handleFile calls made so far, each with its file and whether it is
\* still waiting for file.arrayBuffer()
pageVars == <<fileName, error, loads>>

\* the value a coercer is applied to, and what the coercers returned
probeVars == <<probe, out>>

(***************************************************************************)
(* Raw values                                                              *)
(***************************************************************************)
Val(k, c, n, s, id) == [k |-> k, c |-> c, n |-> n, s |-> s, id |-> id]

Null == Val("null", "fin", 0, <<>>, 0)

Undefined == Val("undef", "fin", 0, <<>>, 0)

Num(n) == Val("num", "fin", n, <<>>, 0)

NaN == Val("num", "nan", 0, <<>>, 0)

PosInf == Val("num", "inf", 0, <<>>, 0)

NegInf == Val("num", "ninf", 0, <<>>, 0)

Bool(b) == Val("bool", "fin", IF b THEN 1 ELSE 0, <<>>, 0)

Str(s) == Val("str", "fin", 0, s, 0)

DateObj(c, day, id) == Val("date", c, day, <<>>, id)

Obj(id) == Val("obj", "fin", 0, <<>>, id)

EmptyStr == Str(<<>>)

\* typeof value
TypeOf(v) ==
  CASE v.k = "num" -> "number"
    [] v.k = "str" -> "string"
    [] v.k = "label" -> "string"
    [] v.k = "bool" -> "boolean"
    [] v.k = "undef" -> "undefined"
    [] OTHER -> "object"

\* value is a finite number: !Number.isNaN(value) && Number.isFinite(value)
IsFiniteNumber(v) == v.k = "num" /\ v.c = "fin"

(***************************************************************************)
(* Strings                                                                 *)
(***************************************************************************)
DigitChars == <<"0", "1", "2", "3", "4", "5", "6", "7", "8", "9">>

Digits == {DigitChars[i] : i \in 1..10}

DigitVal(ch) == (CHOOSE i \in 1..10 : DigitChars[i] = ch) - 1

WhiteSpace == {" "}

RECURSIVE TrimStart(_)
TrimStart(s) ==
  IF s # <<>> /\ Head(s) \in WhiteSpace THEN TrimStart(Tail(s)) ELSE s

RECURSIVE TrimEnd(_)
TrimEnd(s) ==
  IF s # <<>> /\ s[Len(s)] \in WhiteSpace
  THEN TrimEnd(SubSeq(s, 1, Len(s) - 1))
  ELSE s

\* String.prototype.trim
Trim(s) == TrimEnd(TrimStart(s))

IsComma(ch) == ch = ","

NotComma(ch) == ch # ","

\* value.replace(/,/g, "")
StripCommas(s) == SelectSeq(s, NotComma)

LowerOf(ch) ==
  CASE ch = "Y" -> "y"
    [] ch = "E" -> "e"
    [] ch = "S" -> "s"
    [] ch = "N" -> "n"
    [] ch = "O" -> "o"
    [] ch = "I" -> "i"
    [] ch = "T" -> "t"
    [] ch = "R" -> "r"
    [] ch = "U" -> "u"
    [] ch = "F" -> "f"
    [] ch = "A" -> "a"
    [] ch = "L" -> "l"
    [] OTHER -> ch

\* String.prototype.toLowerCase
ToLowerCase(s) == [i \in 1..Len(s) |-> LowerOf(s[i])]

AllDigits(s) == s # <<>> /\ \A i \in 1..Len(s) : s[i] \in Digits

RECURSIVE DecVal(_)
DecVal(s) ==
  IF s = <<>> THEN 0 ELSE 10 * DecVal(SubSeq(s, 1, Len(s) - 1)) + DigitVal(s[Len(s)])

InfinityChars == <<"I", "n", "f", "i", "n", "i", "t", "y">>

\* Number(string): the StringToNumber conversion. The strings of the model hold
\* no ".", no exponent and no radix prefix, so a numeric literal is an optional
\* sign followed by decimal digits, or a signed "Infinity".
StringToNumber(s) ==
  LET t == Trim(s)
      signed == t # <<>> /\ t[1] \in {"+", "-"}
      body == IF signed THEN Tail(t) ELSE t
      neg == signed /\ t[1] = "-"
  IN  IF t = <<>> THEN Num(0)
      ELSE IF body = InfinityChars THEN (IF neg THEN NegInf ELSE PosInf)
      ELSE IF AllDigits(body) THEN Num(IF neg THEN 0 - DecVal(body) ELSE DecVal(body))
      ELSE NaN

RECURSIVE NatToStr(_)
NatToStr(n) ==
  IF n < 10 THEN <<DigitChars[n + 1]>>
  ELSE NatToStr(n \div 10) \o <<DigitChars[(n % 10) + 1]>>

\* Number::toString of an integer
IntToStr(n) == IF n < 0 THEN <<"-">> \o NatToStr(0 - n) ELSE NatToStr(n)

(***************************************************************************)
(* Dates. A time value is [c, n]: c = "fin" with n the day number (days    *)
(* since 1970-01-01 UTC; every time value of the model is a UTC midnight), *)
(* c = "nan" for an invalid time, c = "impl" for a valid time whose value  *)
(* is decided by the engine's implementation-defined legacy parser.       *)
(***************************************************************************)
Time(c, n) == [c |-> c, n |-> n]

InvalidTime == Time("nan", 0)

MsPerDay == 86400000

IsLeap(y) == (y % 4 = 0 /\ y % 100 # 0) \/ y % 400 = 0

DaysInMonth(y, m) ==
  IF m = 2 THEN (IF IsLeap(y) THEN 29 ELSE 28)
  ELSE IF m \in {4, 6, 9, 11} THEN 30 ELSE 31

\* MakeDay: the day number of the civil date y-m-d
DaysFromCivil(y, m, d) ==
  LET yy == IF m <= 2 THEN y - 1 ELSE y
      era == yy \div 400
      yoe == yy - era * 400
      mp == IF m > 2 THEN m - 3 ELSE m + 9
      doy == (153 * mp + 2) \div 5 + d - 1
      doe == yoe * 365 + yoe \div 4 - yoe \div 100 + doy
  IN  era * 146097 + doe - 719468

\* YearFromTime / MonthFromTime / DateFromTime of a day number
CivilFromDays(z) ==
  LET zz == z + 719468
      era == zz \div 146097
      doe == zz - era * 146097
      yoe == (doe - doe \div 1460 + doe \div 36524 - doe \div 146096) \div 365
      doy == doe - (365 * yoe + yoe \div 4 - yoe \div 100)
      mp == (5 * doy + 2) \div 153
      d == doy - (153 * mp + 2) \div 5 + 1
      m == IF mp < 10 THEN mp + 3 ELSE mp - 9
      y == yoe + era * 400 + (IF m <= 2 THEN 1 ELSE 0)
  IN  [y |-> y, m |-> m, d |-> d]

\* the date-only form YYYY-MM-DD of the ECMAScript date-time string format
IsIsoDateForm(t) ==
  /\ Len(t) = 10
  /\ t[5] = "-" /\ t[8] = "-"
  /\ \A i \in {1, 2, 3, 4, 6, 7, 9, 10} : t[i] \in Digits

\* the year-only form YYYY of the ECMAScript date-time string format
IsIsoYearForm(t) == Len(t) = 4 /\ AllDigits(t)

HasDigit(t) == \E i \in 1..Len(t) : t[i] \in Digits

\* Date.parse(string). The date-time string format is parsed as the standard
\* says; for every other string ECMAScript leaves the result to the engine:
\* a string with no digit in it is rejected by the engines, a string with a
\* digit (or an out-of-range day of the month) is accepted by a lenient engine
\* and rejected by a strict one. lenient is the engine the page runs on.
DateParse(t) ==
  IF IsIsoDateForm(t)
  THEN LET y == DecVal(SubSeq(t, 1, 4))
           m == DecVal(SubSeq(t, 6, 7))
           d == DecVal(SubSeq(t, 9, 10))
       IN  IF m \in 1..12 /\ d \in 1..DaysInMonth(y, m)
           THEN Time("fin", DaysFromCivil(y, m, d))
           ELSE IF lenient /\ m \in 1..12 /\ d \in 1..31 THEN Time("impl", 0)
           ELSE InvalidTime
  ELSE IF IsIsoYearForm(t) THEN Time("fin", DaysFromCivil(DecVal(t), 1, 1))
  ELSE IF lenient /\ HasDigit(t) THEN Time("impl", 0)
  ELSE InvalidTime

\* the string a valid time is rendered as by toLocaleDateString: the label of
\* the instant tv. Which calendar day the label reads depends on the time zone
\* the page runs in (CalendarDay).
LocaleDateLabel(tv) == Val("label", tv.c, tv.n, <<>>, 0)

\* the calendar day (as a day number) that the label of a UTC-midnight
\* instant reads in the zone whose offset from UTC is zone hours:
\* toLocaleDateString renders the local date, floor((t + offset) / day)
CalendarDay(label, zone) == (label.n * 24 + zone) \div 24

Pad(n, w) ==
  LET s == NatToStr(n)
  IN  [i \in 1..(w - Len(s)) |-> "0"] \o s

\* d.toISOString().slice(0, 10) of a valid time
IsoDateLabel(tv) ==
  IF tv.c = "impl" THEN Val("label", "impl", 0, <<"i", "s", "o">>, 0)
  ELSE LET cd == CivilFromDays(tv.n)
       IN  Str(Pad(cd.y, 4) \o <<"-">> \o Pad(cd.m, 2) \o <<"-">> \o Pad(cd.d, 2))

\* String(value)
StringOf(v) ==
  CASE v.k = "null" -> Str(<<"n", "u", "l", "l">>)
    [] v.k = "undef" -> Str(<<"u", "n", "d", "e", "f", "i", "n", "e", "d">>)
    [] v.k = "num" /\ v.c = "fin" -> Str(IntToStr(v.n))
    [] v.k = "num" /\ v.c = "nan" -> Str(<<"N", "a", "N">>)
    [] v.k = "num" /\ v.c = "inf" -> Str(InfinityChars)
    [] v.k = "num" /\ v.c = "ninf" -> Str(<<"-">> \o InfinityChars)
    [] v.k = "bool" -> Str(IF v.n = 1 THEN <<"t", "r", "u", "e">>
                                       ELSE <<"f", "a", "l", "s", "e">>)
    [] v.k = "date" -> Str(<<"I", "n", "v", "a", "l", "i", "d", " ", "D", "a", "t", "e">>)
    [] v.k = "obj" -> Str(<<"[", "o", "b", "j", "e", "c", "t", " ", "O", "b", "j", "e", "c", "t", "]">>)
    [] OTHER -> v

\* the time value of new Date(value)
NewDate(v) ==
  CASE v.k = "date" -> Time(v.c, v.n)
    [] v.k = "str" -> DateParse(v.s)
    [] v.k = "num" -> IF v.c = "fin" THEN Time("fin", v.n \div MsPerDay) ELSE InvalidTime
    [] v.k = "bool" -> Time("fin", 0)
    [] v.k = "null" -> Time("fin", 0)
    [] OTHER -> InvalidTime

(***************************************************************************)
(* Value coercers                                                          *)
(***************************************************************************)
isNumeric(value) ==
  IF value.k \in {"null", "undef"} THEN FALSE
  ELSE IF TypeOf(value) = "number" THEN IsFiniteNumber(value)
  ELSE IF value.k = "str"
       THEN LET trimmed == Trim(value.s)
            IN  IF trimmed = <<>> THEN FALSE
                ELSE IsFiniteNumber(StringToNumber(StripCommas(trimmed)))
  ELSE FALSE

BooleanWords ==
  { <<"t", "r", "u", "e">>, <<"f", "a", "l", "s", "e">>, <<"y", "e", "s">>,
    <<"n", "o">>, <<"y">>, <<"n">>, <<"0">>, <<"1">> }

\* the test that knows the words true and false and the digits only
isBooleanLikeStrict(value) ==
  IF TypeOf(value) = "boolean" THEN TRUE
  ELSE IF TypeOf(value) = "number" THEN value.c = "fin" /\ value.n \in {0, 1}
  ELSE IF value.k = "str"
       THEN ToLowerCase(Trim(value.s))
              \in { <<"t", "r", "u", "e">>, <<"f", "a", "l", "s", "e">>, <<"0">>, <<"1">> }
  ELSE FALSE

\* the test that takes every number for a boolean
isBooleanLikeAnyNumber(value) ==
  IF TypeOf(value) = "boolean" THEN TRUE
  ELSE IF TypeOf(value) = "number" THEN TRUE
  ELSE IF value.k = "str" THEN ToLowerCase(Trim(value.s)) \in BooleanWords
  ELSE FALSE

isBooleanLike(value) ==
  IF TypeOf(value) = "boolean" THEN TRUE
  ELSE IF TypeOf(value) = "number" THEN value.c = "fin" /\ value.n \in {0, 1}
  ELSE IF value.k = "str" THEN ToLowerCase(Trim(value.s)) \in BooleanWords
  ELSE FALSE

isDateLike(value) ==
  IF value.k = "date" /\ value.c # "nan" THEN TRUE
  ELSE IF value.k = "str"
       THEN LET trimmed == Trim(value.s)
            IN  IF trimmed = <<>> THEN FALSE
                ELSE DateParse(trimmed).c # "nan"
  ELSE FALSE

\* the conversion that leaves the thousands separators in the string
toNumberKeepsCommas(value) ==
  IF TypeOf(value) = "number" THEN value
  ELSE IF value.k = "str"
       THEN LET n == StringToNumber(value.s)
            IN  IF n.c = "nan" THEN Num(0) ELSE n
  ELSE Num(0)

\* the conversion that gives up on a string with surrounding white space
toNumberUntrimmed(value) ==
  IF TypeOf(value) = "number" THEN value
  ELSE IF value.k = "str"
       THEN LET n == StringToNumber(StripCommas(value.s))
            IN  IF n.c = "nan" \/ value.s # Trim(value.s) THEN Num(0) ELSE n
  ELSE Num(0)

toNumber(value) ==
  IF TypeOf(value) = "number" THEN value
  ELSE IF value.k = "str"
       THEN LET n == StringToNumber(StripCommas(value.s))
            IN  IF n.c = "nan" THEN Num(0) ELSE n
  ELSE Num(0)

SerialLow == 25000

SerialHigh == 60000

SerialEpochDays == 25569

isExcelSerial(serial) ==
  /\ TypeOf(serial) = "number"
  /\ serial.c = "fin"
  /\ serial.n > SerialLow
  /\ serial.n < SerialHigh

\* the time value of excelSerialToDate(serial)
excelSerialToDate(serial) == Time("fin", serial.n - SerialEpochDays)

formatDateLabel(value) ==
  IF value.k = "date" /\ value.c # "nan" THEN LocaleDateLabel(Time(value.c, value.n))
  ELSE IF isExcelSerial(value) THEN LocaleDateLabel(excelSerialToDate(value))
  ELSE IF value.k = "str" /\ DateParse(Trim(value.s)).c # "nan"
       THEN LocaleDateLabel(DateParse(Trim(value.s)))
  ELSE StringOf(value)

(***************************************************************************)
(* Records and datasets. A record is [keys, vals]: keys is the sequence of *)
(* its property names in insertion order, vals maps each name to a value.  *)
(***************************************************************************)
Row(keys, vals) == [keys |-> keys, vals |-> vals]

\* row[col]
Get(row, col) == IF col \in DOMAIN row.vals THEN row.vals[col] ELSE Undefined

\* a property name that is an array index: a canonical non-negative integer
IsArrayIndex(name) == AllDigits(name) /\ (Len(name) = 1 \/ name[1] # "0")

NotArrayIndex(name) == ~IsArrayIndex(name)

IndexLess(a, b) == DecVal(a) < DecVal(b)

\* Object.keys(row): the array-index names in ascending numeric order, then
\* the other names in insertion order (OrdinaryOwnPropertyKeys)
ObjectKeys(row) ==
  SortSeq(SelectSeq(row.keys, IsArrayIndex), IndexLess)
    \o SelectSeq(row.keys, NotArrayIndex)

(***************************************************************************)
(* Column type classifier (detect-column-types.ts)                         *)
(***************************************************************************)
ColumnTypes == {"number", "date", "boolean", "category", "text"}

SampleWindow == 50

NumericTenths == 7

DateTenths == 6

BooleanTenths == 6

UniqueTenths == 7

MaxCategoryValues == 20

Min(a, b) == IF a < b THEN a ELSE b

\* the sample taken over the whole dataset instead of the window
sampleSizeWholeDataset(rows) == Len(rows)

sampleSize(rows) == Min(Len(rows), SampleWindow)

\* the sample filter without its test for the empty string
IsSampledKeepsEmpty(value) == value # Null /\ value # Undefined

\* value !== null && value !== undefined && value !== ""
IsSampled(value) == value # Null /\ value # Undefined /\ value # EmptyStr

sampleValues(rows, col) ==
  SelectSeq([i \in 1..sampleSize(rows) |-> Get(rows[i], col)], IsSampled)

numericCount(sv) == Cardinality({i \in 1..Len(sv) : isNumeric(sv[i])})

booleanCount(sv) == Cardinality({i \in 1..Len(sv) : isBooleanLike(sv[i])})

dateCount(sv) == Cardinality({i \in 1..Len(sv) : isDateLike(sv[i])})

\* typeof v === "string" ? v.trim() : v
normalized(v) == IF v.k = "str" THEN Str(Trim(v.s)) ELSE v

\* the Set of the normalized sample values that are not "", null or undefined
uniqueValues(sv) ==
  {normalized(sv[i]) : i \in 1..Len(sv)} \ {EmptyStr, Null, Undefined}

\* the chain with the boolean rule tried before the numeric rule
decideTypeBooleanFirst(nNum, nDate, nBool, nUnique, n) ==
  IF nBool * 10 > BooleanTenths * n THEN "boolean"
  ELSE IF nNum * 10 > NumericTenths * n THEN "number"
  ELSE IF nDate * 10 > DateTenths * n THEN "date"
  ELSE IF nUnique <= MaxCategoryValues /\ nUnique * 10 < UniqueTenths * n THEN "category"
  ELSE "text"

\* the chain with the category rule off by one: fewer than 20 distinct values
decideTypeFewerCategories(nNum, nDate, nBool, nUnique, n) ==
  IF nNum * 10 > NumericTenths * n THEN "number"
  ELSE IF nDate * 10 > DateTenths * n THEN "date"
  ELSE IF nBool * 10 > BooleanTenths * n THEN "boolean"
  ELSE IF nUnique < MaxCategoryValues /\ nUnique * 10 < UniqueTenths * n THEN "category"
  ELSE "text"

\* the if / else-if chain: numeric, date, boolean, category, text
decideType(nNum, nDate, nBool, nUnique, n) ==
  IF nNum * 10 > NumericTenths * n THEN "number"
  ELSE IF nDate * 10 > DateTenths * n THEN "date"
  ELSE IF nBool * 10 > BooleanTenths * n THEN "boolean"
  ELSE IF nUnique <= MaxCategoryValues /\ nUnique * 10 < UniqueTenths * n THEN "category"
  ELSE "text"

columnSchema(rows, col) ==
  LET sv == sampleValues(rows, col)
  IN  IF Len(sv) = 0 THEN [name |-> col, type |-> "text"]
      ELSE [name |-> col,
            type |-> decideType(numericCount(sv), dateCount(sv), booleanCount(sv),
                                Cardinality(uniqueValues(sv)), Len(sv))]

detectColumnTypes(rows) ==
  IF Len(rows) = 0 THEN <<>>
  ELSE LET columnNames == ObjectKeys(rows[1])
       IN  [j \in 1..Len(columnNames) |-> columnSchema(rows, columnNames[j])]

(***************************************************************************)
(* Page state and the derived values of a render (page.tsx)                *)
(***************************************************************************)
NoParsed == [set |-> FALSE, rows |-> <<>>, schema |-> <<>>]

Parsed(rows, schema) == [set |-> TRUE, rows |-> rows, schema |-> schema]

NoChart == [set |-> FALSE, xLabel |-> <<>>, yLabel |-> <<>>, data |-> <<>>]

NoSummary == [set |-> FALSE, totalRows |-> 0, byType |-> [t \in ColumnTypes |-> 0]]

\* the numeric filter letting boolean columns through
IsNumberOrBooleanColumn(c) == c.type \in {"number", "boolean"}

IsNumberColumn(c) == c.type = "number"

IsDimensionColumn(c) == c.type \in {"date", "category", "text"}

numericColumns(p) == IF p.set THEN SelectSeq(p.schema, IsNumberColumn) ELSE <<>>

dimensionColumns(p) == IF p.set THEN SelectSeq(p.schema, IsDimensionColumn) ELSE <<>>

\* the values that || replaces: null, undefined, "", 0, NaN, false
Falsy(v) ==
  \/ v.k \in {"null", "undef"}
  \/ v = EmptyStr
  \/ v.k = "num" /\ (v.c = "nan" \/ (v.c = "fin" /\ v.n = 0))
  \/ v.k = "bool" /\ v.n = 0

\* `Row ${idx + 1}` for the 1-based position i
RowLabel(i) == Str(<<"R", "o", "w", " ">> \o NatToStr(i))

\* parsed.schema.find((s) => s.name === xCol)?.type
colTypeOf(schema, xCol) ==
  IF \E j \in 1..Len(schema) : schema[j].name = xCol
  THEN schema[CHOOSE j \in 1..Len(schema) :
                /\ schema[j].name = xCol
                /\ \A h \in 1..(j - 1) : schema[h].name # xCol].type
  ELSE "undefined"

\* the y column taken from the end of the number columns
yColOfLast(p) == numericColumns(p)[Len(numericColumns(p))].name

yColOf(p) == numericColumns(p)[1].name

xColOf(p) ==
  IF dimensionColumns(p) # <<>> THEN dimensionColumns(p)[1].name
  ELSE ObjectKeys(p.rows[1])[1]

\* the x of a row, page.tsx of src/unnamed/part_002 (formatDateLabel)
xValue(row, xCol, colType) ==
  IF colType = "date" THEN formatDateLabel(Get(row, xCol)) ELSE Get(row, xCol)

\* the x of a row, src/app/page.tsx (new Date(xVal).toISOString().slice(0, 10))
xValueIso(row, xCol, colType) ==
  IF colType = "date" /\ NewDate(Get(row, xCol)).c # "nan"
  THEN IsoDateLabel(NewDate(Get(row, xCol)))
  ELSE Get(row, xCol)

\* one element of parsed.rows.map((row, idx) => ...), i = idx + 1
chartEntry(xVal, row, i, yCol) ==
  [x |-> IF Falsy(xVal) THEN RowLabel(i) ELSE xVal, y |-> toNumber(Get(row, yCol))]

\* the projection with the rows whose y cell is blank filtered out first
dataForChartDropsBlankY(p, xCol, yCol) ==
  LET kept == SelectSeq(p.rows, LAMBDA row : IsSampled(Get(row, yCol)))
  IN  [i \in 1..Len(kept) |->
         chartEntry(xValue(kept[i], xCol, colTypeOf(p.schema, xCol)), kept[i], i, yCol)]

dataForChart(p, xCol, yCol) ==
  [i \in 1..Len(p.rows) |->
     chartEntry(xValue(p.rows[i], xCol, colTypeOf(p.schema, xCol)), p.rows[i], i, yCol)]

dataForChartIso(p, xCol, yCol) ==
  [i \in 1..Len(p.rows) |->
     chartEntry(xValueIso(p.rows[i], xCol, colTypeOf(p.schema, xCol)), p.rows[i], i, yCol)]

\* the projection that answers a dataset of zero rows with an empty series
chartConfigEmptySeries(p) ==
  IF ~p.set THEN NoChart
  ELSE IF Len(p.rows) = 0
  THEN [set |-> TRUE, xLabel |-> <<>>, yLabel |-> <<>>, data |-> <<>>]
  ELSE IF Len(numericColumns(p)) = 0 THEN NoChart
  ELSE [set |-> TRUE, xLabel |-> xColOf(p), yLabel |-> yColOf(p),
        data |-> dataForChart(p, xColOf(p), yColOf(p))]

\* chartConfig of src/unnamed/part_002
chartConfig(p) ==
  IF ~p.set \/ Len(p.rows) = 0 THEN NoChart
  ELSE IF Len(numericColumns(p)) = 0 THEN NoChart
  ELSE [set |-> TRUE, xLabel |-> xColOf(p), yLabel |-> yColOf(p),
        data |-> dataForChart(p, xColOf(p), yColOf(p))]

\* chartConfig of src/app/page.tsx
chartConfigIso(p) ==
  IF ~p.set \/ Len(p.rows) = 0 THEN NoChart
  ELSE IF Len(numericColumns(p)) = 0 THEN NoChart
  ELSE [set |-> TRUE, xLabel |-> xColOf(p), yLabel |-> yColOf(p),
        data |-> dataForChartIso(p, xColOf(p), yColOf(p))]

\* the count that leaves the text columns out
bumpSkipsText(byType, col) ==
  IF col.type = "text" THEN byType ELSE [byType EXCEPT ![col.type] = @ + 1]

\* byType[col.type] += 1
bump(byType, col) == [byType EXCEPT ![col.type] = @ + 1]

RECURSIVE countByType(_, _)
countByType(schema, byType) ==
  IF schema = <<>> THEN byType
  ELSE countByType(Tail(schema), bump(byType, Head(schema)))

summary(p) ==
  IF ~p.set THEN NoSummary
  ELSE [set |-> TRUE, totalRows |-> Len(p.rows),
        byType |-> countByType(p.schema, [t \in ColumnTypes |-> 0])]

(***************************************************************************)
(* The cell of the grid (CellContent): what is rendered for a value of a   *)
(* column of a type, as [kind, text]                                       *)
(***************************************************************************)
TruthyWords == { <<"t", "r", "u", "e">>, <<"y", "e", "s">>, <<"y">>, <<"1">> }

LabelTrue == Str(<<"T", "R", "U", "E">>)

LabelFalse == Str(<<"F", "A", "L", "S", "E">>)

\* the badge text that compares the string as it is written
booleanLabelCaseSensitive(value) ==
  LET v == IF value.k = "str" THEN Trim(value.s) ELSE StringOf(value).s
  IN  IF v \in TruthyWords THEN LabelTrue ELSE LabelFalse

\* the boolean branch of CellContent: the badge text
booleanLabel(value) ==
  LET v == IF value.k = "str" THEN ToLowerCase(Trim(value.s)) ELSE StringOf(value).s
  IN  IF v \in TruthyWords THEN LabelTrue ELSE LabelFalse

\* the date branch of CellContent, src/app/page.tsx
newDateLabel(value) ==
  IF NewDate(value).c = "nan" THEN StringOf(value) ELSE LocaleDateLabel(NewDate(value))

Cell(kind, text) == [kind |-> kind, text |-> text]

\* CellContent of src/unnamed/part_002
CellContent(value, type) ==
  IF value = Null \/ value = Undefined \/ value = EmptyStr THEN Cell("blank", EmptyStr)
  ELSE IF type = "number" THEN Cell("number", toNumber(value))
  ELSE IF type = "boolean" THEN Cell("boolean", booleanLabel(value))
  ELSE IF type = "date" THEN Cell("date", formatDateLabel(value))
  ELSE IF type = "category" THEN Cell("category", StringOf(value))
  ELSE Cell("text", StringOf(value))

\* CellContent of src/app/page.tsx
CellContentNewDate(value, type) ==
  IF value = Null \/ value = Undefined \/ value = EmptyStr THEN Cell("blank", EmptyStr)
  ELSE IF type = "number" THEN Cell("number", toNumber(value))
  ELSE IF type = "boolean" THEN Cell("boolean", booleanLabel(value))
  ELSE IF type = "date" THEN Cell("date", newDateLabel(value))
  ELSE IF type = "category" THEN Cell("category", StringOf(value))
  ELSE Cell("text", StringOf(value))

(***************************************************************************)
(* The datasets the engine is run on                                       *)
(***************************************************************************)
MaxTail == 2

MaxDistinct == 21

ColA == <<"a">>

ColB == <<"b">>

ColZ == <<"z">>

ColOne == <<"1">>

S(str) == Str(str)

\* the values a cell of column a is drawn from
CellValues ==
  { Null, Undefined, EmptyStr, S(<<" ">>), S(<<",">>),
    Num(0), Num(1), Num(1200), Num(30000), NaN, PosInf, Bool(TRUE), Bool(FALSE),
    S(<<"1">>), S(<<"0">>), S(<<"1", ",", "2", "0", "0">>), S(<<" ", "7", " ">>),
    S(<<"y", "e", "s">>), S(<<"Y", "E", "S">>), S(<<"o", "p", "e", "n">>),
    S(<<"2", "0", "2", "4", "-", "0", "1", "-", "0", "5">>),
    S(InfinityChars), S(<<"1", "2", "a">>),
    Obj(0), DateObj("fin", 19727, 0), DateObj("nan", 0, 0) }

\* the values the rest of the column is filled with
FillValues ==
  { EmptyStr, Undefined, Num(0), S(<<"n", "o">>), S(<<"c", "l", "o", "s", "e", "d">>),
    S(<<"9", "8", "0">>), S(<<"2", "0", "2", "4", "-", "0", "1", "-", "0", "6">>) }

\* every object cell of a sheet is an object of its own
WithId(v, i) == IF v.k \in {"obj", "date"} THEN [v EXCEPT !.id = i] ELSE v

\* n cells: v1 in the first k rows, v2 in the others
BlockCells(v1, v2, k, n) == [i \in 1..n |-> WithId(IF i <= k THEN v1 ELSE v2, i)]

Letters ==
  << "a", "b", "c", "d", "e", "f", "g", "h", "i", "j", "k", "l", "m",
     "n", "o", "p", "q", "r", "s", "t", "u", "v", "w", "x", "y", "z" >>

Word(j) == <<"w", Letters[j]>>

\* n cells that cycle through d distinct words
CycleCells(d, n) == [i \in 1..n |-> S(Word(((i - 1) % d) + 1))]

RowCounts == {1, 2, 5, 10, 30} \cup (SampleWindow..(SampleWindow + MaxTail))

SplitPoints == {1, 3, 6, 7, 35, 50}

Splits(n) == {k \in SplitPoints : k < n} \cup {n}

Shapes == {"solo", "numfirst", "numlast", "indexkey", "ragged"}

\* the dataset of a shape whose column a holds the cells a
Shaped(shape, a) ==
  CASE shape = "solo" ->
         [i \in 1..Len(a) |-> Row(<<ColA>>, ColA :> a[i])]
    [] shape = "numfirst" ->
         [i \in 1..Len(a) |-> Row(<<ColB, ColA>>, ColB :> Num(i) @@ ColA :> a[i])]
    [] shape = "numlast" ->
         [i \in 1..Len(a) |-> Row(<<ColA, ColB>>, ColA :> a[i] @@ ColB :> Num(i))]
    [] shape = "indexkey" ->
         [i \in 1..Len(a) |->
            Row(<<ColA, ColOne>>, ColA :> a[i] @@ ColOne :> S(<<"1", ",", "5">>))]
    [] OTHER ->
         [i \in 1..Len(a) |->
            IF i = 1 THEN Row(<<ColA, ColB>>, ColA :> a[i] @@ ColB :> EmptyStr)
            ELSE Row(<<ColA, ColZ>>, ColA :> a[i] @@ ColZ :> Num(7))]

BlockDatasets ==
  { Shaped("solo", BlockCells(v1, v2, k, n)) :
      <<v1, v2, n, k>> \in
        { q \in CellValues \X FillValues \X RowCounts \X (SplitPoints \cup RowCounts) :
            q[4] \in Splits(q[3]) } }

ShapedDatasets ==
  { Shaped(sh, BlockCells(v1, v2, 3, n)) :
      <<sh, v1, v2, n>> \in (Shapes \ {"solo"}) \X CellValues \X FillValues \X {2, 10} }

CycleDatasets ==
  { Shaped(sh, CycleCells(d, n)) :
      <<sh, d, n>> \in {"solo", "numfirst"} \X ((MaxDistinct - 2)..MaxDistinct) \X {30, SampleWindow} }

ColAmount == <<"a", "m", "o", "u", "n", "t">>

ColDay == <<"d", "a", "y">>

\* [{amount: "1,200", day: "2024-01-05"}, {amount: "980", day: "2024-01-06"}]
ScenarioA ==
  << Row(<<ColAmount, ColDay>>,
         ColAmount :> S(<<"1", ",", "2", "0", "0">>)
           @@ ColDay :> S(<<"2", "0", "2", "4", "-", "0", "1", "-", "0", "5">>)),
     Row(<<ColAmount, ColDay>>,
         ColAmount :> S(<<"9", "8", "0">>)
           @@ ColDay :> S(<<"2", "0", "2", "4", "-", "0", "1", "-", "0", "6">>)) >>

Datasets == BlockDatasets \cup ShapedDatasets \cup CycleDatasets \cup {<<>>, ScenarioA}

(***************************************************************************)
(* The engine run on one dataset: classify, then render                    *)
(***************************************************************************)
NoView == [chart |-> NoChart, chartIso |-> NoChart, summary |-> NoSummary]

NoName == <<>>

NoError == "none"

NoProbe == [set |-> FALSE, value |-> Null, zone |-> 0]

NoOut == [set |-> FALSE]

EngineInit ==
  /\ input \in Datasets
  /\ lenient \in BOOLEAN
  /\ parsed = NoParsed
  /\ view = NoView
  /\ stage = "input"
  /\ fileName = NoName /\ error = NoError /\ loads = <<>>
  /\ probe = NoProbe /\ out = NoOut

\* const schema = detectColumnTypes(json); setParsed({ rows: json, schema })
Classify ==
  /\ stage = "input"
  /\ parsed' = Parsed(input, detectColumnTypes(input))
  /\ stage' = "classified"
  /\ UNCHANGED <<input, view, lenient, pageVars, probeVars>>

\* a render that writes the chart's x labels back into the rows it read
RenderInPlace ==
  /\ stage = "classified"
  /\ view' = [chart |-> chartConfig(parsed), chartIso |-> chartConfigIso(parsed),
              summary |-> summary(parsed)]
  /\ parsed' =
       IF ~chartConfig(parsed).set THEN parsed
       ELSE [parsed EXCEPT !.rows =
               [i \in 1..Len(parsed.rows) |->
                  Row(parsed.rows[i].keys,
                      (chartConfig(parsed).xLabel :> chartConfig(parsed).data[i].x)
                        @@ parsed.rows[i].vals)]]
  /\ stage' = "rendered"
  /\ UNCHANGED <<input, lenient, pageVars, probeVars>>

\* the render that follows setParsed: the chartConfig and summary memos
Render ==
  /\ stage = "classified"
  /\ view' = [chart |-> chartConfig(parsed), chartIso |-> chartConfigIso(parsed),
              summary |-> summary(parsed)]
  /\ stage' = "rendered"
  /\ UNCHANGED <<input, parsed, lenient, pageVars, probeVars>>

EngineNext == Classify \/ Render

EngineSpec == EngineInit /\ [][EngineNext]_vars

(***************************************************************************)
(* The coercers applied to one value: CoerceSpec                           *)
(***************************************************************************)
MaxProbeLen == 3

ProbeChars == {" ", ",", "0", "1", "-", "a", "y", "N"}

RECURSIVE StringsUpTo(_)
StringsUpTo(n) ==
  IF n = 0 THEN {<<>>}
  ELSE StringsUpTo(n - 1) \cup
       {Append(s, ch) : s \in {q \in StringsUpTo(n - 1) : Len(q) = n - 1}, ch \in ProbeChars}

ProbeWords ==
  { <<"t", "r", "u", "e">>, <<"f", "a", "l", "s", "e">>, <<"y", "e", "s">>, <<"n", "o">>,
    <<"T", "R", "U", "E">>, <<"F", "a", "l", "s", "e">>, <<" ", "Y", "e", "s", " ">>,
    <<"N", "O", " ">>, <<"o", "n">>, <<"t", "r", "u", "e", "1">>,
    <<"I", "n", "f", "i", "n", "i", "t", "y">>, <<"-", "I", "n", "f", "i", "n", "i", "t", "y">>,
    <<"1", ",", "2", "0", "0">>, <<" ", "1", ",", "2", "0", "0", " ">>,
    <<"1", "2", "a">>, <<"9", "8", "0">>, <<"+", "7">>,
    <<"2", "0", "2", "4", "-", "0", "1", "-", "0", "5">>,
    <<" ", "2", "0", "2", "4", "-", "0", "1", "-", "0", "5">>,
    <<"2", "0", "2", "4", "-", "0", "2", "-", "3", "0">>,
    <<"2", "0", "2", "4", "-", "1", "3", "-", "0", "1">>,
    <<"2", "0", "2", "4">> }

ProbeNumbers ==
  { Num(n) : n \in {-1, 0, 1, 2, 7, 980, 24999, 25000, 25001, 25568, 25569, 25570,
                    45296, 59999, 60000, 60001} }

ProbeValues ==
  { Null, Undefined, Bool(TRUE), Bool(FALSE), NaN, PosInf, NegInf, Obj(0),
    DateObj("fin", 19727, 0), DateObj("fin", 0, 0), DateObj("nan", 0, 0) }
    \cup ProbeNumbers
    \cup { Str(s) : s \in StringsUpTo(MaxProbeLen) \cup ProbeWords }

\* the offsets from UTC, in hours, of the zones the page is run in
Zones == {-5, 0, 9}

CoerceInit ==
  /\ probe \in [set : {TRUE}, value : ProbeValues, zone : Zones]
  /\ lenient \in BOOLEAN
  /\ out = NoOut
  /\ input = <<>> /\ parsed = NoParsed /\ view = NoView /\ stage = "probe"
  /\ fileName = NoName /\ error = NoError /\ loads = <<>>

\* the coercers of the classifier and of the page, each applied to the value
Coerce ==
  /\ ~out.set
  /\ out' = [set |-> TRUE,
             numeric |-> isNumeric(probe.value),
             booleanLike |-> isBooleanLike(probe.value),
             dateLike |-> isDateLike(probe.value),
             number |-> toNumber(probe.value),
             booleanLabel |-> booleanLabel(probe.value),
             dateLabel |-> formatDateLabel(probe.value),
             day |-> CalendarDay(formatDateLabel(probe.value), probe.zone)]
  /\ UNCHANGED <<input, parsed, view, stage, lenient, pageVars, probe>>

CoerceNext == Coerce

CoerceSpec == CoerceInit /\ [][CoerceNext]_vars

(***************************************************************************)
(* Properties                                                              *)
(***************************************************************************)
Classified == stage \in {"classified", "rendered"}

Rendered == stage = "rendered"

\* the rows of the sample window
Window == 1..Min(Len(input), SampleWindow)

Blank(v) == v \in {Null, Undefined, EmptyStr}

\* the rows of the window whose cell of column col is not blank
Sampled(col) == {i \in Window : ~Blank(Get(input[i], col))}

SchemaNames == [j \in 1..Len(parsed.schema) |-> parsed.schema[j].name]

HasType(type) == \E j \in 1..Len(parsed.schema) : parsed.schema[j].type = type

\* C1: the per-type counts of the summary sum to the number of schema entries
\* and totalRows is the number of rows of the dataset.
C1_SummaryCounts ==
  Rendered =>
    /\ view.summary.set
    /\ view.summary.byType["number"] + view.summary.byType["date"]
         + view.summary.byType["boolean"] + view.summary.byType["category"]
         + view.summary.byType["text"] = Len(parsed.schema)
    /\ view.summary.totalRows = Len(input)

C1_Witness ==
  /\ Rendered
  /\ Len(input) >= 2
  /\ Len(parsed.schema) = 2
  /\ HasType("text")
  /\ HasType("number")

\* C2: the schema of a non-empty dataset names the keys of the first record,
\* once each, in the order the keys were inserted.
C2_InsertionOrder == (Classified /\ input # <<>>) => SchemaNames = input[1].keys

\* C3: for a non-empty dataset the chart is none exactly when no schema column
\* has type number, and then the summary counts 0 number columns.
C3_ChartIffNumber ==
  (Rendered /\ input # <<>>) =>
    /\ view.chart.set <=> HasType("number")
    /\ view.chartIso.set <=> HasType("number")
    /\ ~view.chart.set => view.summary.byType["number"] = 0

C3_Witness ==
  /\ Rendered
  /\ Len(input) >= 2
  /\ Len(parsed.schema) = 2
  /\ ~HasType("number")
  /\ ~view.chart.set

\* the x values row i can give: its raw x cell, a date label of it, or Row i
XOfRow(i, xCol) ==
  LET raw == Get(input[i], xCol)
  IN  { raw, RowLabel(i), formatDateLabel(raw) }
        \cup (IF NewDate(raw).c # "nan" THEN {IsoDateLabel(NewDate(raw))} ELSE {})

EntriesOfRows(chart) ==
  /\ Len(chart.data) = Len(input)
  /\ \A i \in 1..Len(input) :
       /\ chart.data[i].y = toNumber(Get(input[i], chart.yLabel))
       /\ chart.data[i].x \in XOfRow(i, chart.xLabel)

\* C4: a produced chart has one entry per dataset row, and entry i is computed
\* from row i, so the order of the rows is kept.
C4_OneEntryPerRow ==
  Rendered =>
    /\ view.chart.set => EntriesOfRows(view.chart)
    /\ view.chartIso.set => EntriesOfRows(view.chartIso)

C4_Witness ==
  /\ Rendered
  /\ view.chart.set
  /\ Len(input) >= 3
  /\ view.chart.data[1].y # view.chart.data[Len(input)].y
  /\ view.chart.data[1].x # view.chart.data[Len(input)].x

\* C5: toNumber returns a finite number for every value it is given, here the
\* y cells of the charted rows: never NaN, never an infinity.
C5_ToNumberFinite ==
  (Rendered /\ view.chart.set) =>
    \A i \in 1..Len(input) : IsFiniteNumber(toNumber(Get(input[i], view.chart.yLabel)))

\* a row beyond the sample window, with the keys of the first record
TailRow(v) == Row(input[1].keys, [col \in {input[1].keys[h] : h \in 1..Len(input[1].keys)} |-> v])

TailValues == {Num(5), Bool(TRUE), S(Word(26)), S(<<"2", "0", "2", "4", "-", "0", "1", "-", "0", "6">>)}

\* the rows another dataset may hold from index 50 onward
OtherTails ==
  {<<>>, <<TailRow(Num(5)), TailRow(S(Word(26)))>>} \cup {<<TailRow(v)>> : v \in TailValues}

\* C6: a dataset that has the same first 50 rows gets the same schema, whatever
\* its rows from index 50 onward hold.
C6_SampleWindowOnly ==
  (stage = "classified" /\ Len(input) >= SampleWindow) =>
    \A tail \in OtherTails :
      detectColumnTypes(SubSeq(input, 1, SampleWindow) \o tail) = parsed.schema

C6_Witness ==
  /\ stage = "classified"
  /\ Len(input) > SampleWindow
  /\ \A i \in Window : Blank(Get(input[i], ColA))
  /\ isNumeric(Get(input[SampleWindow + 1], ColA))
  /\ \E tail \in OtherTails : SubSeq(input, 1, SampleWindow) \o tail # input

\* C8: a column whose sampled non-blank values all pass isNumeric is classified
\* number, also when the values are only "0"/"1" or 0/1.
C8_AllNumericIsNumber ==
  (Classified /\ input # <<>>) =>
    \A j \in 1..Len(parsed.schema) :
      LET col == parsed.schema[j].name
      IN  (Sampled(col) # {} /\ \A i \in Sampled(col) : isNumeric(Get(input[i], col)))
            => parsed.schema[j].type = "number"

C8_Witness ==
  /\ Classified
  /\ \E j \in 1..Len(parsed.schema) :
       /\ parsed.schema[j].name = ColA
       /\ parsed.schema[j].type = "number"
  /\ \A i \in Sampled(ColA) : Get(input[i], ColA) \in {S(<<"0">>), S(<<"1">>), Num(0), Num(1)}
  /\ \E i \in Sampled(ColA) : Get(input[i], ColA).k = "str"
  /\ \E i \in Sampled(ColA) : Get(input[i], ColA).k = "num"

\* the distinct non-blank values of the sample of a column, strings trimmed
Distinct(col) == {normalized(Get(input[i], col)) : i \in Sampled(col)} \ {EmptyStr}

Passing(col, Test(_)) == Cardinality({i \in Sampled(col) : Test(Get(input[i], col))})

\* C9: a column with at most 20 distinct non-blank values and a unique ratio
\* below 0.7 that meets none of the number, date and boolean thresholds is
\* classified category.
C9_LowCardinalityIsCategory ==
  (Classified /\ input # <<>>) =>
    \A j \in 1..Len(parsed.schema) :
      LET col == parsed.schema[j].name
          n == Cardinality(Sampled(col))
          d == Cardinality(Distinct(col))
      IN  ( /\ n > 0
            /\ d <= 20
            /\ d * 10 < 7 * n
            /\ ~(Passing(col, isNumeric) * 10 > 7 * n)
            /\ ~(Passing(col, isDateLike) * 10 > 6 * n)
            /\ ~(Passing(col, isBooleanLike) * 10 > 6 * n) )
            => parsed.schema[j].type = "category"

C9_Witness ==
  /\ Classified
  /\ Len(input) = 30
  /\ {Get(input[i], ColA) : i \in 1..Len(input)}
       = {S(<<"o", "p", "e", "n">>), S(<<"c", "l", "o", "s", "e", "d">>)}
  /\ parsed.schema = <<[name |-> ColA, type |-> "category"]>>

\* C10: a column whose sampled cells are all blank is classified text, whatever
\* the other columns hold.
C10_BlankColumnIsText ==
  (Classified /\ input # <<>>) =>
    \A j \in 1..Len(parsed.schema) :
      Sampled(parsed.schema[j].name) = {} => parsed.schema[j].type = "text"

C10_Witness ==
  /\ Classified
  /\ Len(input) >= 2
  /\ \E j, h \in 1..Len(parsed.schema) :
       /\ Sampled(parsed.schema[j].name) = {}
       /\ parsed.schema[j].type = "text"
       /\ parsed.schema[h].type = "number"
  /\ \E i \in Window : Get(input[i], ColA) = EmptyStr

(***************************************************************************)
(* C11: an empty dataset is not an error: detectColumnTypes returns the    *)
(* empty schema for zero rows, and the chart projection of zero rows is    *)
(* none (null), in both versions of the page.                              *)
(***************************************************************************)
C11_EmptyDataset ==
  (Classified /\ input = <<>>) =>
     /\ parsed.set
     /\ parsed.schema = <<>>
     /\ Rendered => (view.chart = NoChart /\ view.chartIso = NoChart)

C11_Witness == Rendered /\ input = <<>> /\ parsed.set /\ ~view.chart.set

(***************************************************************************)
(* C12: detectColumnTypes, summary and chartConfig are read-only: no step  *)
(* changes the dataset, the rows held after classification are the input   *)
(* rows (same keys, same values), and once set, rows and schema are left   *)
(* as they are by the summary and the projection.                          *)
(***************************************************************************)
C12_ReadOnly ==
  [][/\ input' = input
     /\ parsed'.set => parsed'.rows = input
     /\ parsed.set => parsed' = parsed]_vars

\* a chart was produced whose x differs from the cell it was read from
C12_Witness ==
  /\ Rendered /\ view.chart.set
  /\ \E i \in 1..Len(input) :
        view.chart.data[i].x # Get(input[i], view.chart.xLabel)
  /\ parsed.rows = input
  /\ parsed.schema = detectColumnTypes(input)

Yes == Str(<<"y", "e", "s">>)

No == Str(<<"n", "o">>)

YesNoColumn(col) ==
  /\ Sampled(col) # {}
  /\ \A i \in Sampled(col) : Get(input[i], col) \in {Yes, No}

C14_YesNoIsBoolean ==
  Classified =>
    \A j \in 1..Len(parsed.schema) :
       YesNoColumn(parsed.schema[j].name) =>
          /\ parsed.schema[j].type = "boolean"
          /\ \A i \in Sampled(parsed.schema[j].name) :
                CellContent(Get(input[i], parsed.schema[j].name), parsed.schema[j].type)
                  = IF Get(input[i], parsed.schema[j].name) = Yes
                    THEN Cell("boolean", LabelTrue) ELSE Cell("boolean", LabelFalse)

\* a classified column that holds both "yes" and "no"
C14_Witness ==
  /\ Classified
  /\ \E j \in 1..Len(parsed.schema) :
        /\ YesNoColumn(parsed.schema[j].name)
        /\ \E i, h \in Sampled(parsed.schema[j].name) :
              /\ Get(input[i], parsed.schema[j].name) = Yes
              /\ Get(input[h], parsed.schema[j].name) = No
        /\ booleanLabel(Yes) = LabelTrue /\ booleanLabel(No) = LabelFalse

(***************************************************************************)
(* C15: for a column with a non-empty sample of size n, with num, dat and  *)
(* boo the counts of sampled values passing isNumeric, isDateLike and      *)
(* isBooleanLike and d the number of distinct normalized sampled values,   *)
(* the type is number if num/n > 0.7, else date if dat/n > 0.6, else       *)
(* boolean if boo/n > 0.6, else category if d <= 20 and d/n < 0.7, else    *)
(* text; every comparison is strict.                                       *)
(***************************************************************************)
DistinctNormalized(col) == {normalized(Get(input[i], col)) : i \in Sampled(col)}

ChainType(num, dat, boo, d, n) ==
  IF num * 10 > 7 * n THEN "number"
  ELSE IF dat * 10 > 6 * n THEN "date"
  ELSE IF boo * 10 > 6 * n THEN "boolean"
  ELSE IF d <= 20 /\ d * 10 < 7 * n THEN "category"
  ELSE "text"

C15_ThresholdChain ==
  Classified =>
    \A j \in 1..Len(parsed.schema) :
       LET col == parsed.schema[j].name
       IN  Sampled(col) # {} =>
             parsed.schema[j].type =
               ChainType(Passing(col, isNumeric), Passing(col, isDateLike),
                         Passing(col, isBooleanLike),
                         Cardinality(DistinctNormalized(col)),
                         Cardinality(Sampled(col)))

(***************************************************************************)
(* C16: when the x column's type is not date, the x of the row at 0-based  *)
(* index i is the row's raw value for the x column, replaced by the label  *)
(* "Row {i+1}" exactly when that value is null, absent or the empty        *)
(* string; any other value, the number 0 and the boolean false included,   *)
(* is kept. Stated for both versions of the chart.                         *)
(***************************************************************************)
RawOrRowLabel(chart) ==
  \A i \in 1..Len(input) :
     chart.data[i].x = IF Blank(Get(input[i], chart.xLabel)) THEN RowLabel(i)
                       ELSE Get(input[i], chart.xLabel)

C16_RowLabelOnlyForBlank ==
  (Rendered /\ view.chart.set /\ colTypeOf(parsed.schema, view.chart.xLabel) # "date") =>
     RawOrRowLabel(view.chart) /\ RawOrRowLabel(view.chartIso)

(***************************************************************************)
(* C17: when the x column's type is date, the x of every chart entry is    *)
(* the date label of the row's raw value (or the Row label when that label *)
(* is empty), computed by the label function that renders the date cells   *)
(* of the grid. Stated for both versions of the page, each against its own *)
(* grid.                                                                   *)
(***************************************************************************)
LabelOrRow(label, i) == IF Falsy(label) THEN RowLabel(i) ELSE label

DateXColumn == colTypeOf(parsed.schema, view.chart.xLabel) = "date"

C17_ChartLabelIsGridLabel ==
  (Rendered /\ view.chart.set /\ DateXColumn) =>
     \A i \in 1..Len(input) :
        /\ view.chart.data[i].x =
             LabelOrRow(formatDateLabel(Get(input[i], view.chart.xLabel)), i)
        /\ view.chartIso.data[i].x =
             LabelOrRow(newDateLabel(Get(input[i], view.chartIso.xLabel)), i)

(***************************************************************************)
(* C18: the x column is the first column, in schema order, whose type is   *)
(* date, category or text; when the schema has none, it is the first key   *)
(* of the first record. xLabel is that name and names a schema column.     *)
(***************************************************************************)
DimensionIndexes == {j \in 1..Len(parsed.schema) : parsed.schema[j].type \in {"date", "category", "text"}}

FirstIndex(indexes) == CHOOSE j \in indexes : \A h \in indexes : j <= h

XColumnIs(chart, fallback) ==
  /\ chart.xLabel = IF DimensionIndexes # {}
                    THEN parsed.schema[FirstIndex(DimensionIndexes)].name
                    ELSE fallback
  /\ \E j \in 1..Len(parsed.schema) : parsed.schema[j].name = chart.xLabel

C18_XColumn ==
  (Rendered /\ view.chart.set) =>
     /\ XColumnIs(view.chart, input[1].keys[1])
     /\ XColumnIs(view.chartIso, input[1].keys[1])

(***************************************************************************)
(* C19: the y column is the first column in schema order whose type is     *)
(* number, and yLabel is its name; a column of another type is never the   *)
(* y column.                                                               *)
(***************************************************************************)
NumberIndexes == {j \in 1..Len(parsed.schema) : parsed.schema[j].type = "number"}

YColumnIs(chart) ==
  /\ NumberIndexes # {}
  /\ chart.yLabel = parsed.schema[FirstIndex(NumberIndexes)].name
  /\ \A j \in 1..Len(parsed.schema) :
        parsed.schema[j].name = chart.yLabel => parsed.schema[j].type = "number"

C19_YColumn ==
  (Rendered /\ view.chart.set) => (YColumnIs(view.chart) /\ YColumnIs(view.chartIso))

\* two number columns, the first of them charted
C19_Witness ==
  /\ Rendered /\ view.chart.set
  /\ Cardinality(NumberIndexes) = 2
  /\ view.chart.yLabel = parsed.schema[1].name
  /\ view.chart.yLabel # parsed.schema[2].name

(***************************************************************************)
(* C20: for every row of a chart, y is toNumber of the row's value in the  *)
(* y column, and a row whose y value is missing, blank or not numeric      *)
(* (fails isNumeric) contributes y = 0. Stated for both versions.          *)
(***************************************************************************)
YOfRows(chart) ==
  \A i \in 1..Len(input) :
     LET raw == Get(input[i], chart.yLabel)
     IN  /\ chart.data[i].y = toNumber(raw)
         /\ (Blank(raw) \/ ~isNumeric(raw)) => chart.data[i].y = Num(0)

C20_NonNumericYIsZero ==
  (Rendered /\ view.chart.set) =>
     /\ Len(view.chart.data) = Len(input) /\ YOfRows(view.chart)
     /\ Len(view.chartIso.data) = Len(input) /\ YOfRows(view.chartIso)

(***************************************************************************)
(* The page and its file loads: PageSpec                                   *)
(***************************************************************************)
MaxLoads == 3

ErrNoRows == "No rows found in the first sheet."

ErrFailed == "Failed to read Excel file. Please check the format and try again."

\* a file: its name, whether XLSX.read accepts it, the rows of its first sheet
File(name, readable, rows) == [name |-> name, readable |-> readable, rows |-> rows]

Files ==
  { File(<<"a">>, TRUE, ScenarioA),
    File(<<"b">>, TRUE, Shaped("numlast", <<S(<<"o", "p", "e", "n">>), EmptyStr>>)),
    File(<<"e">>, TRUE, <<>>),
    File(<<"x">>, FALSE, <<>>) }

\* what a render derives from parsed: the chartConfig and summary memos
ViewOf(p) ==
  [chart |-> chartConfig(p), chartIso |-> chartConfigIso(p), summary |-> summary(p)]

PageInit ==
  /\ parsed = NoParsed
  /\ view = NoView
  /\ fileName = NoName /\ error = NoError /\ loads = <<>>
  /\ lenient \in BOOLEAN
  /\ input = <<>> /\ stage = "page"
  /\ probe = NoProbe /\ out = NoOut

\* onInputChange / onDrop: handleFile(file) up to its await
SelectFile(file) ==
  /\ Len(loads) < MaxLoads
  /\ error' = NoError
  /\ parsed' = NoParsed
  /\ fileName' = file.name
  /\ loads' = Append(loads, [file |-> file, waiting |-> TRUE])
  /\ view' = ViewOf(NoParsed)
  /\ UNCHANGED <<input, stage, lenient, probeVars>>

\* the continuation that stores whatever sheet_to_json returned
FinishReadUnguarded(i) ==
  /\ i \in 1..Len(loads) /\ loads[i].waiting
  /\ LET file == loads[i].file
     IN  IF ~file.readable
         THEN error' = ErrFailed /\ UNCHANGED parsed
         ELSE /\ parsed' = Parsed(file.rows, detectColumnTypes(file.rows))
              /\ UNCHANGED error
  /\ loads' = [loads EXCEPT ![i].waiting = FALSE]
  /\ view' = ViewOf(parsed')
  /\ UNCHANGED <<input, stage, lenient, fileName, probeVars>>

\* handleFile after its await, for the i-th call: the buffer arrives (or the
\* read is rejected), the workbook is parsed and the state is set
FinishRead(i) ==
  /\ i \in 1..Len(loads) /\ loads[i].waiting
  /\ LET file == loads[i].file
     IN  IF ~file.readable
         THEN error' = ErrFailed /\ UNCHANGED parsed
         ELSE IF Len(file.rows) = 0
         THEN error' = ErrNoRows /\ UNCHANGED parsed
         ELSE /\ parsed' = Parsed(file.rows, detectColumnTypes(file.rows))
              /\ UNCHANGED error
  /\ loads' = [loads EXCEPT ![i].waiting = FALSE]
  /\ view' = ViewOf(parsed')
  /\ UNCHANGED <<input, stage, lenient, fileName, probeVars>>

PageNext ==
  \/ \E file \in Files : SelectFile(file)
  \/ \E i \in 1..MaxLoads : FinishRead(i)

PageSpec == PageInit /\ [][PageNext]_vars

(***************************************************************************)
(* Properties of the coercers (CoerceSpec)                                 *)
(***************************************************************************)
Coerced == out.set

(***************************************************************************)
(* C21: isNumeric(v) is true exactly when v is a finite number, or a       *)
(* string that is non-empty after trimming and parses as a finite number   *)
(* once commas are removed; it is false for null, absent, the empty        *)
(* string, booleans, NaN, the infinities and every string with no digit.   *)
(***************************************************************************)
ParsesFinite(s) ==
  Trim(s) # <<>> /\ StringToNumber(StripCommas(Trim(s))).c = "fin"

C21_IsNumericExactly ==
  Coerced =>
    LET v == probe.value
    IN  /\ out.numeric =
             \/ (v.k = "num" /\ v.c = "fin")
             \/ (v.k = "str" /\ ParsesFinite(v.s))
        /\ v \in {Null, Undefined, EmptyStr, Bool(TRUE), Bool(FALSE), NaN, PosInf, NegInf}
             => ~out.numeric
        /\ (v.k = "str" /\ ~HasDigit(v.s)) => ~out.numeric

(***************************************************************************)
(* C22: isDateLike(v) is true for a number in the spreadsheet date-serial  *)
(* range [25000, 60000), for a valid date value and for a non-empty string *)
(* that the date parser accepts.                                           *)
(***************************************************************************)
C22_IsDateLikeSerial ==
  Coerced =>
    LET v == probe.value
    IN  /\ (v.k = "num" /\ v.c = "fin" /\ v.n >= 25000 /\ v.n < 60000) => out.dateLike
        /\ (v.k = "date" /\ v.c # "nan") => out.dateLike
        /\ (v.k = "str" /\ Trim(v.s) # <<>> /\ DateParse(Trim(v.s)).c # "nan") => out.dateLike

(***************************************************************************)
(* C23: the date label of a number n with 25000 <= n < 60000 is the label  *)
(* of a date, and the calendar day it reads is n - 25569 days after        *)
(* 1970-01-01 (floor(n) days after 1899-12-30) in whatever zone the page   *)
(* runs; a number outside the range is labelled with its plain string.     *)
(***************************************************************************)
C23_SerialLabel ==
  Coerced =>
    LET v == probe.value
    IN  (v.k = "num" /\ v.c = "fin") =>
          IF v.n >= 25000 /\ v.n < 60000
          THEN /\ out.dateLabel.k = "label"
               /\ out.day = v.n - 25569
               /\ (v.n = 25569 => out.day = DaysFromCivil(1970, 1, 1))
          ELSE out.dateLabel = StringOf(v)

(***************************************************************************)
(* C24: isBooleanLike(v) is true exactly when v is a native boolean, or a  *)
(* number equal to 0 or 1, or a string whose trimmed, lowercased form is   *)
(* one of true, false, yes, no, y, n, 0, 1; false for every other value.   *)
(***************************************************************************)
TrueWords == { <<"t", "r", "u", "e">>, <<"y", "e", "s">>, <<"y">>, <<"1">> }

FalseWords == { <<"f", "a", "l", "s", "e">>, <<"n", "o">>, <<"n">>, <<"0">> }

Folded(v) == ToLowerCase(Trim(v.s))

C24_IsBooleanLikeExactly ==
  Coerced =>
    LET v == probe.value
    IN  out.booleanLike =
          \/ v.k = "bool"
          \/ (v.k = "num" /\ v.c = "fin" /\ v.n \in {0, 1})
          \/ (v.k = "str" /\ Folded(v) \in TrueWords \cup FalseWords)

\* a padded, capitalised word is boolean-like
C24_Witness ==
  /\ Coerced /\ out.booleanLike
  /\ probe.value = Str(<<" ", "Y", "e", "s", " ">>)

(***************************************************************************)
(* C25: the boolean label agrees with isBooleanLike: native true, 1 and    *)
(* the strings true/yes/y/1 (trimmed, any case) are labelled TRUE; native  *)
(* false, 0 and the strings false/no/n/0 are labelled FALSE; a non-blank   *)
(* value that is not boolean-like is labelled FALSE.                       *)
(***************************************************************************)
TrueLike(v) ==
  \/ v = Bool(TRUE)
  \/ v = Num(1)
  \/ (v.k = "str" /\ Folded(v) \in TrueWords)

FalseLike(v) ==
  \/ v = Bool(FALSE)
  \/ v = Num(0)
  \/ (v.k = "str" /\ Folded(v) \in FalseWords)

C25_BooleanLabelAgrees ==
  Coerced =>
    LET v == probe.value
    IN  /\ out.booleanLike = (TrueLike(v) \/ FalseLike(v))
        /\ TrueLike(v) => out.booleanLabel = LabelTrue
        /\ FalseLike(v) => out.booleanLabel = LabelFalse
        /\ (~Blank(v) /\ ~out.booleanLike) => out.booleanLabel = LabelFalse
        /\ CellContent(v, "boolean") =
             IF Blank(v) THEN Cell("blank", EmptyStr) ELSE Cell("boolean", out.booleanLabel)

\* an upper-case word is labelled TRUE
C25_Witness ==
  /\ Coerced /\ out.booleanLike
  /\ probe.value = Str(<<"T", "R", "U", "E">>)
  /\ out.booleanLabel = LabelTrue

(***************************************************************************)
(* C30: isNumeric and toNumber agree: for every value with isNumeric true, *)
(* toNumber is the finite number isNumeric parsed (the number itself, or   *)
(* the value of the string after trimming and comma removal), so a cell    *)
(* that is numeric and not zero is never converted to 0.                   *)
(***************************************************************************)
C30_NumericConverts ==
  (Coerced /\ out.numeric) =>
    LET v == probe.value
    IN  /\ out.number.k = "num" /\ out.number.c = "fin"
        /\ out.number = IF v.k = "num" THEN v
                        ELSE StringToNumber(StripCommas(Trim(v.s)))

\* a padded string with a thousands separator converts to its value
C30_Witness ==
  /\ Coerced /\ out.numeric
  /\ probe.value = Str(<<" ", "1", ",", "2", "0", "0", " ">>)
  /\ out.number = Num(1200)

(***************************************************************************)
(* C29 (EngineSpec): for every column whose sample is non-empty, the count *)
(* of distinct values the category rule uses is at least 1 and at most the *)
(* sample size, and a column whose sampled cells are all whitespace-only   *)
(* strings is not classified category.                                     *)
(***************************************************************************)
WhitespaceOnly(v) == v.k = "str" /\ v.s # <<>> /\ Trim(v.s) = <<>>

DistinctCount(col) == Cardinality(uniqueValues(sampleValues(input, col)))

C29_DistinctCountPositive ==
  Classified =>
    \A j \in 1..Len(parsed.schema) :
       LET col == parsed.schema[j].name
       IN  Sampled(col) # {} =>
             /\ DistinctCount(col) >= 1
             /\ DistinctCount(col) <= Cardinality(Sampled(col))
             /\ (\A i \in Sampled(col) : WhitespaceOnly(Get(input[i], col)))
                  => parsed.schema[j].type # "category"

(***************************************************************************)
(* Properties of the page (PageSpec)                                       *)
(***************************************************************************)
LastFile == loads[Len(loads)].file

(***************************************************************************)
(* C26: with overlapping loads the page shows the most recently selected   *)
(* file: fileName is the name of the last selected file, and whenever      *)
(* parsed is set its rows and schema are those of the file named fileName. *)
(***************************************************************************)
C26_ParsedIsOfFileName ==
  /\ loads # <<>> => fileName = LastFile.name
  /\ parsed.set =>
       /\ parsed.rows = LastFile.rows
       /\ parsed.schema = detectColumnTypes(LastFile.rows)

(***************************************************************************)
(* C27: the error message and the parsed dataset are never set at the same *)
(* time, for any sequence of loads, overlapping ones included.             *)
(***************************************************************************)
C27_ErrorXorParsed == ~(error # NoError /\ parsed.set)

(***************************************************************************)
(* C28: whenever parsed is set, it has at least one row and its schema is  *)
(* detectColumnTypes of exactly its rows; a sheet of zero rows never       *)
(* becomes the parsed dataset, and the summary and the chart are computed  *)
(* only from such a dataset.                                               *)
(***************************************************************************)
C28_ParsedNonEmpty ==
  /\ parsed.set =>
       /\ Len(parsed.rows) >= 1
       /\ parsed.schema = detectColumnTypes(parsed.rows)
       /\ \E i \in 1..Len(loads) : ~loads[i].waiting /\ loads[i].file.rows = parsed.rows
  /\ view = ViewOf(parsed)
  /\ (view.summary.set \/ view.chart.set \/ view.chartIso.set) => parsed.set

\* a dataset is shown although the load of an empty sheet has finished
C28_Witness ==
  /\ parsed.set /\ view.chart.set /\ view.summary.set
  /\ \E i \in 1..Len(loads) :
        ~loads[i].waiting /\ loads[i].file.readable /\ loads[i].file.rows = <<>>
====
